---- MODULE Spec2Model ----
(***************************************************************************)
(* Model of update-metrics.sh (the daily metrics aggregator) and of the    *)
(* Cloudflare Worker in worker/src/index.js.                               *)
(*                                                                         *)
(* Dates are day numbers 1..MaxDay; the empty string of the script (no     *)
(* date, no commit, no entry) is 0 for a date or a commit and the empty    *)
(* sequence for a command's output.                                        *)
(***************************************************************************)
EXTENDS Integers, Sequences, FiniteSets, TLC

\* ------------------------------------------------------------------ bounds
MaxDay == 3
MaxCommits == 2
MaxRequests == 2

Days == 1..MaxDay

\* ---------------------------------------------------------- configuration
\* Two of the script's repository definitions: one scanned under listed
\* directories, one scanned whole. name|dirs|extensions.
REPO_DEFS ==
  << [name |-> "clover-app", dirs |-> {"src", "supabase"}, exts |-> {"ts", "tsx", "js", "jsx", "sql"}],
     [name |-> "blog", dirs |-> {}, exts |-> {"html", "scss", "md", "yml", "sh"}] >>

RepoNames == { REPO_DEFS[k].name : k \in 1..Len(REPO_DEFS) }

\* The trees a commit can hold: tracked files with their top directory ("" for
\* a file at the root), extension and number of lines.
TreeSmall ==
  { [path |-> "src/a.ts", dir |-> "src", ext |-> "ts", lines |-> 1],
    [path |-> "README.md", dir |-> "", ext |-> "md", lines |-> 1] }
TreeLarge ==
  { [path |-> "src/a.ts", dir |-> "src", ext |-> "ts", lines |-> 2],
    [path |-> "src/notes.md", dir |-> "src", ext |-> "md", lines |-> 1],
    [path |-> "tools/b.ts", dir |-> "tools", ext |-> "ts", lines |-> 3],
    [path |-> "README.md", dir |-> "", ext |-> "md", lines |-> 2] }
\* A commit names its tree, as git does.
tree_files(tree) == IF tree = "small" THEN TreeSmall ELSE TreeLarge

VARIABLES
  repos,           \* name -> [git: the checkout has a .git directory, commits: history, oldest first]
  METRICS_FILE,    \* [exists, lines]: the lines of metrics.json
  pc,              \* position of the running script, "idle" when none runs
  mode,            \* "seed" or "incr": $1
  today,           \* $(date +%Y-%m-%d)
  entries,         \* the entries array
  existing_dates,  \* the lookup string, as the sequence of its dates
  current,         \* the loop's date
  sorted,          \* the sorted array
  i,               \* write_json's counter
  exit_code,       \* exit status of the last finished run, -1 while none
  start_file,      \* history: METRICS_FILE when the run started
  computed,        \* history: the dates compute_day was called with in this run
  rerun,           \* history: this run repeats the run completed just before it: same mode, same today, nothing changed in between
  wrote,           \* history: write_json has started to rewrite the file in this run
  wpc, request, row, upstream, upstream_calls, responses, response, served

aggVars == << repos, METRICS_FILE, pc, mode, today, entries, existing_dates, current,
              sorted, i, exit_code, start_file, computed, rerun, wrote >>
workerVars == << wpc, request, row, upstream, upstream_calls, responses, response, served >>
vars == << aggVars, workerVars >>

\* ------------------------------------------------------------- git queries
\* A commit: committer day cd, author day ad, the tree it records.
\* git rev-list -1 --before="${d}T23:59:59" HEAD: walking back from HEAD, the
\* first commit whose committer date is not after d; 0 when there is none.
\* (mutant: the date limit is ignored, HEAD is taken)
rev_list_before_head(commits, k, d) == k

RECURSIVE rev_list_before(_, _, _)
rev_list_before(commits, k, d) ==
  IF k = 0 THEN 0
  ELSE IF commits[k].cd <= d THEN k
  ELSE rev_list_before(commits, k - 1, d)

\* git rev-list --count <commit>: the commits reachable from it.
rev_list_count(commits, k) == k

\* git log --reverse --format='%ad' --date=short | head -1: the author date of
\* the oldest commit; 0 when the log is empty.
first_author_date(commits) == IF Len(commits) = 0 THEN 0 ELSE commits[1].ad

\* grep -E on make_ext_pattern's '\.(e1|e2|...)$'
make_ext_pattern(exts, f) == f.ext \in exts

RECURSIVE sum_lines(_)
sum_lines(files) ==
  IF files = {} THEN 0
  ELSE LET f == CHOOSE x \in files : TRUE
       IN f.lines + sum_lines(files \ {f})

count_loc_repo(tree, dirs, exts) ==
  LET listed == IF dirs # {} THEN { f \in tree_files(tree) : f.dir \in dirs }
                ELSE tree_files(tree)
      files == { f \in listed : make_ext_pattern(exts, f) }
  IN IF files = {} THEN 0 ELSE sum_lines(files)

\* ------------------------------------------------------------- compute_day
\* The loop over REPO_DEFS from definition k on; acc is repos_json so far.
RECURSIVE compute_day_from(_, _, _)
compute_day_from(k, d, acc) ==
  IF k > Len(REPO_DEFS) THEN acc
  ELSE LET def == REPO_DEFS[k]
           r == repos[def.name]
           commit == IF r.git THEN rev_list_before(r.commits, Len(r.commits), d) ELSE 0
       IN IF ~r.git \/ commit = 0
          THEN compute_day_from(k + 1, d, acc)
          ELSE compute_day_from(k + 1, d,
                 acc @@ (def.name :> [commits |-> rev_list_count(r.commits, commit),
                                      loc |-> count_loc_repo(r.commits[commit].tree, def.dirs, def.exts)]))

\* The output of compute_day: no line when no repository had a commit
\* (return 1), else the one entry.
compute_day(d) ==
  LET repos_json == compute_day_from(1, d, << >>)
  IN IF DOMAIN repos_json = {} THEN << >>
     ELSE << [date |-> d, repos |-> repos_json] >>

\* --------------------------------------------------------- metrics.json
OpenLine == [kind |-> "[", indent |-> 0, text |-> << >>, comma |-> FALSE]
CloseLine == [kind |-> "]", indent |-> 0, text |-> << >>, comma |-> FALSE]
EntryLine(entry, comma) == [kind |-> "entry", indent |-> 2, text |-> << entry >>, comma |-> comma]

NoFile == [exists |-> FALSE, lines |-> << >>]

\* sed 's/^[[:space:]]*//' | sed 's/,$//' on one line
clean_line(line) == [line EXCEPT !.indent = 0, !.comma = FALSE]

RECURSIVE read_lines(_)
read_lines(lines) ==
  IF lines = << >> THEN << >>
  ELSE LET clean == clean_line(Head(lines))
       IN IF clean.kind = "[" \/ clean.kind = "]" \/ clean.text = << >>
          THEN read_lines(Tail(lines))
          ELSE clean.text \o read_lines(Tail(lines))

\* The entries of metrics.json, one per line, no commas.
read_existing(file) == IF ~file.exists THEN << >> ELSE read_lines(file.lines)

\* sed 's/.*"date":"\([^"]*\)".*/\1/'
date_of(entry) == entry.date

dates_of(es) == [k \in 1..Len(es) |-> date_of(es[k])]

\* (mutant: the lookup never matches)
is_cached_never(dates, d) == FALSE

\* echo "$existing_dates" | grep -qw "$current"
is_cached(dates, d) == \E k \in 1..Len(dates) : dates[k] = d

\* sed "s/$last_date //": the first occurrence goes
RECURSIVE remove_first(_, _)
remove_first(dates, d) ==
  IF dates = << >> THEN << >>
  ELSE IF Head(dates) = d THEN Tail(dates)
  ELSE << Head(dates) >> \o remove_first(Tail(dates), d)

\* sort -t'"' -k4: by the date, which is the fourth field
RECURSIVE insert_sorted(_, _)
insert_sorted(e, es) ==
  IF es = << >> THEN << e >>
  ELSE IF date_of(e) < date_of(Head(es)) THEN << e >> \o es
  ELSE << Head(es) >> \o insert_sorted(e, Tail(es))

\* (mutant: the entries are written in the order they were collected)
sort_entries_skipped(es) == es

RECURSIVE sort_entries(_)
sort_entries(es) ==
  IF es = << >> THEN << >>
  ELSE insert_sorted(Head(es), sort_entries(Tail(es)))

\* ----------------------------------------------------- earliest_first_date
RECURSIVE earliest_from(_, _)
earliest_from(k, earliest) ==
  IF k > Len(REPO_DEFS) THEN earliest
  ELSE LET r == repos[REPO_DEFS[k].name]
           fd == IF r.git THEN first_author_date(r.commits) ELSE 0
       IN IF fd # 0 /\ (earliest = 0 \/ fd < earliest)
          THEN earliest_from(k + 1, fd)
          ELSE earliest_from(k + 1, earliest)

\* (mutant: without any history the seed starts at the first day instead of
\* failing)
earliest_first_date_defaulted ==
  IF earliest_from(1, 0) = 0 THEN 1 ELSE earliest_from(1, 0)

earliest_first_date == earliest_from(1, 0)

\* ------------------------------------------------------------- the Worker
\* A request: its method, its path, its body (text that is no JSON, the JSON
\* null, an object without fields, an object with page_path, referrer and
\* platform) and request.cf.country (absent, a region code, a string that is
\* no region code).
Requests ==
  [method : {"OPTIONS", "POST", "GET"},
   path : {"/api/visit", "/"},
   body : {"garbage", "null", "{}", "visit"},
   country : {"", "US", "??"}]

NoRequest == [method |-> "", path |-> "", body |-> "", country |-> ""]
NoRow == [page_path |-> "", referrer |-> "", platform |-> "", country |-> "", country_code |-> ""]
NoResponse == [status |-> 0, body |-> ""]

\* regionNames.of(code) in its try/catch, lines 30-36: a RangeError for a
\* string that is no region code leaves the code itself as the name.
countryName(countryCode) ==
  IF countryCode = "" THEN "null"
  ELSE IF countryCode = "US" THEN "United States"
  ELSE countryCode

\* Lines 38-47 for a body that is an object.
make_row(body, countryCode) ==
  [page_path |-> IF body = "visit" THEN "/about" ELSE "/",
   referrer |-> IF body = "visit" THEN "https://example.org" ELSE "null",
   platform |-> IF body = "visit" THEN "web" ELSE "null",
   country |-> countryName(countryCode),
   country_code |-> IF countryCode = "" THEN "null" ELSE countryCode]

\* ... return new Response(...): the handler's one answer to the request.
Respond(status, body) ==
  /\ response' = [status |-> status, body |-> body]
  /\ responses' = responses + 1
  /\ wpc' = "responded"

\* (mutant: no try/catch, the exception leaves the handler)
Uncaught(message) ==
  /\ wpc' = "threw"
  /\ UNCHANGED << response, responses >>

\* The catch of handleVisit, lines 71-76.
Catch(message) == Respond(500, "error")

\* A request arrives.
Receive(req) ==
  /\ wpc = "idle"
  /\ served < MaxRequests
  /\ request' = req
  /\ wpc' = "fetch"
  /\ UNCHANGED << row, upstream, upstream_calls, responses, response, served, aggVars >>

\* fetch, lines 8-19.
Fetch ==
  /\ wpc = "fetch"
  /\ IF request.method = "OPTIONS"
     THEN Respond(204, "")
     ELSE IF request.method = "POST" /\ request.path = "/api/visit"
     THEN /\ wpc' = "visit"
          /\ UNCHANGED << response, responses >>
     ELSE Respond(404, "Not found")
  /\ UNCHANGED << request, row, upstream, upstream_calls, served, aggVars >>

\* handleVisit, lines 24-47: request.json() rejects text that is no JSON, and
\* reading body.page_path of null throws.
VisitRow ==
  /\ wpc = "visit"
  /\ IF request.body = "garbage"
     THEN /\ Catch("Unexpected token")
          /\ UNCHANGED row
     ELSE IF request.body = "null"
     THEN /\ Catch("Cannot read properties of null")
          /\ UNCHANGED row
     ELSE /\ row' = make_row(request.body, request.country)
          /\ wpc' = "insert"
          /\ UNCHANGED << response, responses >>
  /\ UNCHANGED << request, upstream, upstream_calls, served, aggVars >>

\* handleVisit, lines 49-70: the insert is sent; it fails, or answers ok, or
\* answers not ok, and then res.text() yields the error text or fails.
VisitInsert(outcome) ==
  /\ wpc = "insert"
  /\ upstream_calls' = upstream_calls + 1
  /\ upstream' = outcome
  /\ IF outcome = "throws" THEN Catch("fetch failed")
     ELSE IF outcome = "not ok" THEN Respond(500, "error")
     ELSE IF outcome = "not ok, text throws" THEN Catch("body used")
     ELSE Respond(200, "ok")
  /\ UNCHANGED << request, row, served, aggVars >>

\* The response is sent; the next request starts afresh.
Sent ==
  /\ wpc = "responded"
  /\ wpc' = "idle"
  /\ served' = served + 1
  /\ request' = NoRequest /\ row' = NoRow /\ upstream' = "none"
  /\ upstream_calls' = 0 /\ responses' = 0 /\ response' = NoResponse
  /\ UNCHANGED aggVars

WorkerNext ==
  \/ \E req \in Requests : Receive(req)
  \/ Fetch
  \/ VisitRow
  \/ \E outcome \in {"ok", "not ok", "not ok, text throws", "throws"} : VisitInsert(outcome)
  \/ Sent

NoRun ==
  /\ mode = "none" /\ today = 0 /\ entries = << >> /\ existing_dates = << >>
  /\ current = 0 /\ sorted = << >> /\ i = 0 /\ exit_code = -1
  /\ start_file = NoFile /\ computed = {}
  /\ rerun = FALSE /\ wrote = FALSE

WorkerInit ==
  /\ wpc = "idle" /\ request = NoRequest /\ row = NoRow /\ upstream = "none"
  /\ upstream_calls = 0 /\ responses = 0 /\ response = NoResponse /\ served = 0

Init ==
  /\ repos = [n \in RepoNames |-> [git |-> TRUE, commits |-> << >>]]
  /\ METRICS_FILE = NoFile
  /\ pc = "idle"
  /\ NoRun
  /\ WorkerInit

runVars == << mode, today, entries, existing_dates, current, sorted, i, exit_code,
              start_file, computed, rerun, wrote >>

RECURSIVE commits_from(_)
commits_from(k) ==
  IF k > Len(REPO_DEFS) THEN 0
  ELSE Len(repos[REPO_DEFS[k].name].commits) + commits_from(k + 1)

\* The commits of all histories together, which MaxCommits bounds.
total_commits == commits_from(1)

\* A commit lands in a checkout between two runs, not older than the one
\* before it. Only the first commit's author date is ever read (it is the
\* committer date or, for a commit rebased or amended a day later, the day
\* before), so later commits carry ad = cd. The first commit records
\* TreeSmall, the later ones TreeLarge.
Commit(n, cd, ad) ==
  /\ pc = "idle"
  /\ total_commits < MaxCommits
  /\ ad \in {cd - 1, cd}
  /\ Len(repos[n].commits) > 0 =>
       /\ repos[n].commits[Len(repos[n].commits)].cd <= cd
       /\ ad = cd
  /\ repos' = [repos EXCEPT ![n].commits =
                 Append(@, [cd |-> cd, ad |-> ad,
                            tree |-> IF Len(@) = 0 THEN "small" ELSE "large"])]
  /\ UNCHANGED << METRICS_FILE, pc, runVars, workerVars >>

\* A checkout (its .git directory) goes away or comes back between two runs.
Checkout(n) ==
  /\ pc = "idle"
  /\ repos' = [repos EXCEPT ![n].git = ~@]
  /\ UNCHANGED << METRICS_FILE, pc, runVars, workerVars >>

\* ------------------------------------------------------------ the script
\* The while loop, lines 157-169 (seed) and 184-196 (incremental), which are
\* the same text: from cur until after today, a date among dates is cached,
\* any other is computed and its entry, if any, appended. acc holds the
\* entries and the dates compute_day was called with.
RECURSIVE loop(_, _, _, _)
loop(cur, t, dates, acc) ==
  IF ~(cur <= t) THEN acc
  ELSE IF is_cached(dates, cur) THEN loop(cur + 1, t, dates, acc)
  ELSE LET entry == compute_day(cur)
       IN loop(cur + 1, t, dates,
               [entries |-> IF Len(entry) > 0 THEN acc.entries \o entry ELSE acc.entries,
                computed |-> acc.computed \cup {cur}])

\* Lines 149-169: the seed branch, from the loaded entries es and their dates.
seed_branch(t, es, dates) ==
  LET first_date == earliest_first_date
      out == loop(first_date, t, dates, [entries |-> es, computed |-> {}])
  IN IF first_date = 0
     THEN [pc |-> "failed", exit_code |-> 1, entries |-> es, existing_dates |-> dates,
           computed |-> {}, current |-> 0]
     ELSE [pc |-> "sort", exit_code |-> -1, entries |-> out.entries, existing_dates |-> dates,
           computed |-> out.computed,
           current |-> IF first_date <= t THEN t + 1 ELSE first_date]

\* (mutant: the last entry stays, and stays cached)
evict_nothing(es, dates, t) ==
  [entries |-> es, existing_dates |-> dates,
   current |-> IF Len(es) > 0 THEN date_of(es[Len(es)]) ELSE t]

\* Lines 173-182: the last entry is dropped so that it gets recomputed.
evict(es, dates, t) ==
  IF Len(es) > 0
  THEN LET last_entry == es[Len(es)]
           last_date == date_of(last_entry)
       IN [entries |-> SubSeq(es, 1, Len(es) - 1),
           existing_dates |-> remove_first(dates, last_date),
           current |-> last_date]
  ELSE [entries |-> es, existing_dates |-> dates, current |-> t]

\* Lines 173-196: the incremental branch, from the loaded entries es and their
\* dates.
incr_branch(t, es, dates) ==
  LET ev == evict(es, dates, t)
      out == loop(ev.current, t, ev.existing_dates, [entries |-> ev.entries, computed |-> {}])
  IN [pc |-> "sort", exit_code |-> -1, entries |-> out.entries,
      existing_dates |-> ev.existing_dates, computed |-> out.computed,
      current |-> IF ev.current <= t THEN t + 1 ELSE ev.current]

\* Lines 135-197: the entries and their dates are loaded, the clock is read,
\* and the branch that $1 selects collects the entries to write.
Run(m, t) ==
  LET es == read_existing(METRICS_FILE)
      out == IF m = "seed" THEN seed_branch(t, es, dates_of(es))
             ELSE incr_branch(t, es, dates_of(es))
  IN /\ mode' = m
     /\ today' = t
     /\ start_file' = METRICS_FILE
     /\ entries' = out.entries
     /\ existing_dates' = out.existing_dates
     /\ computed' = out.computed
     /\ current' = out.current
     /\ exit_code' = out.exit_code
     /\ pc' = out.pc
     /\ sorted' = << >> /\ i' = 0 /\ wrote' = FALSE
     /\ UNCHANGED << repos, METRICS_FILE, workerVars >>

\* The script is started.
Start(m, t) ==
  /\ pc = "idle"
  /\ Run(m, t)
  /\ rerun' = FALSE

\* The script has completed and is started again in the same mode, on the
\* same day, the repositories as they were.
Rerun ==
  /\ pc = "done"
  /\ Run(mode, today)
  /\ rerun' = TRUE

\* Line 200.
Sort ==
  /\ pc = "sort"
  /\ sorted' = sort_entries(entries)
  /\ pc' = "write"
  /\ UNCHANGED << repos, METRICS_FILE, mode, today, entries, existing_dates, current, i,
                  exit_code, start_file, computed, rerun, wrote,
                  workerVars >>

\* set -u (line 16) with an empty array: a bash older than 4.4 takes
\* "${entries[@]}" and "${sorted[@]}" (lines 200, 203) of an array without
\* elements for an unbound variable and exits before write_json runs; a newer
\* bash goes on (Sort).
Nounset ==
  /\ pc = "sort"
  /\ Len(entries) = 0
  /\ pc' = "aborted"
  /\ exit_code' = 1
  /\ UNCHANGED << repos, METRICS_FILE, mode, today, entries, existing_dates, current, sorted,
                  i, start_file, computed, rerun, wrote, workerVars >>

\* (mutant: >> for >, the old lines stay)
open_appending(file) == [exists |-> TRUE, lines |-> Append(file.lines, OpenLine)]

\* echo "[" > "$METRICS_FILE"
open_truncating(file) == [exists |-> TRUE, lines |-> << OpenLine >>]

\* write_json, line 107: the file is truncated.
WriteOpen ==
  /\ pc = "write"
  /\ METRICS_FILE' = open_truncating(METRICS_FILE)
  /\ i' = 0
  /\ wrote' = TRUE
  /\ pc' = "write_entries"
  /\ UNCHANGED << repos, mode, today, entries, existing_dates, current, sorted, exit_code,
                  start_file, computed, rerun, workerVars >>

\* write_json, lines 108-115: one entry is appended, with a comma unless last.
write_line(count, k, entry) == EntryLine(entry, k < count)

WriteEntry ==
  /\ pc = "write_entries"
  /\ i < Len(sorted)
  /\ i' = i + 1
  /\ METRICS_FILE' = [METRICS_FILE EXCEPT
                        !.lines = Append(@, write_line(Len(sorted), i + 1, sorted[i + 1]))]
  /\ UNCHANGED << repos, pc, mode, today, entries, existing_dates, current, sorted, exit_code,
                  start_file, computed, rerun, wrote, workerVars >>

\* write_json, line 116, and line 204: the script ends.
WriteClose ==
  /\ pc = "write_entries"
  /\ i = Len(sorted)
  /\ METRICS_FILE' = [METRICS_FILE EXCEPT !.lines = Append(@, CloseLine)]
  /\ pc' = "done"
  /\ exit_code' = 0
  /\ UNCHANGED << repos, mode, today, entries, existing_dates, current, sorted, i,
                  start_file, computed, rerun, wrote, workerVars >>

\* The process has ended (or is terminated while running: whatever it has
\* written stays), and its variables are gone with it.
Reap ==
  /\ pc # "idle"
  /\ pc' = "idle"
  /\ mode' = "none" /\ today' = 0 /\ entries' = << >> /\ existing_dates' = << >>
  /\ current' = 0 /\ sorted' = << >> /\ i' = 0 /\ exit_code' = -1
  /\ start_file' = NoFile /\ computed' = {}
  /\ rerun' = FALSE /\ wrote' = FALSE
  /\ UNCHANGED << repos, METRICS_FILE, workerVars >>

Next ==
  \/ \E n \in RepoNames, cd \in Days, ad \in Days : Commit(n, cd, ad)
  \/ \E n \in RepoNames : Checkout(n)
  \/ \E m \in {"seed", "incr"}, t \in Days : Start(m, t)
  \/ Rerun
  \/ Sort
  \/ Nounset
  \/ WriteOpen
  \/ WriteEntry
  \/ WriteClose
  \/ Reap

Spec == Init /\ [][Next]_vars

WorkerSpec == Init /\ [][WorkerNext]_vars

\* ================================================================ claims
FileEntries == read_existing(METRICS_FILE)

\* The entries the run loaded when it started.
start_entries == read_existing(start_file)

HasEntryFor(es, d) == \E k \in 1..Len(es) : es[k].date = d
EntriesFor(es, d) == SelectSeq(es, LAMBDA e : e.date = d)
Holds(es, e) == \E k \in 1..Len(es) : es[k] = e

\* compute_day yields this very entry today.
Fresh(e) == compute_day(e.date) = << e >>

LastStored == start_entries[Len(start_entries)]

C2_FileUntouchedBeforeDone ==
  (pc # "idle" /\ pc # "done") => METRICS_FILE = start_file

\* C2 as amended: a run leaves the file as it was until write_json starts;
\* write_json truncates the file and appends the sorted entries one by one, so
\* from then on the file holds "[" and the first i sorted entries.
C2_FileUntouchedBeforeWrite ==
  /\ (pc # "idle" /\ ~wrote) => METRICS_FILE = start_file
  /\ wrote =>
       /\ METRICS_FILE.exists
       /\ Head(METRICS_FILE.lines) = OpenLine
       /\ Len(METRICS_FILE.lines) = 1 + i + (IF pc = "done" THEN 1 ELSE 0)
       /\ FileEntries = SubSeq(sorted, 1, i)

\* The write is under way: the stored series is gone and only part of the new
\* one is in the file.
C2_Witness ==
  /\ pc = "write_entries"
  /\ i >= 1 /\ i < Len(sorted)
  /\ Len(start_entries) > i
  /\ METRICS_FILE # start_file

\* C3: a run that follows a completed run, with the same repositories and the
\* same today, persists the series it found, and the last entry of that series
\* is what compute_day yields for its date.
C3_RerunIdentical ==
  (pc = "done" /\ rerun) =>
    /\ FileEntries = start_entries
    /\ Len(FileEntries) > 0 => Fresh(FileEntries[Len(FileEntries)])

\* The earliest first-commit date over the repositories that have history.
FirstCommitDates ==
  { repos[n].commits[1].ad : n \in { m \in RepoNames : repos[m].git /\ repos[m].commits # << >> } }

\* C4: a seed run over an empty file persists exactly one snapshot for each
\* day from the earliest first-commit date through today, in order.
C4_SeedCoversEveryDay ==
  (pc = "done" /\ mode = "seed" /\ start_entries = << >>) =>
    \E first \in FirstCommitDates :
      /\ \A d \in FirstCommitDates : first <= d
      /\ Len(FileEntries) = (IF today >= first THEN today - first + 1 ELSE 0)
      /\ \A k \in 1..Len(FileEntries) : FileEntries[k].date = first + k - 1

\* C5 as stated: every completed run over a non-empty series, seed or
\* incremental, has called compute_day for the last stored date, and the file
\* then holds for that date what compute_day yields.
C5_LastStoredRefreshed ==
  (pc = "done" /\ start_entries # << >>) =>
    /\ LastStored.date \in computed
    /\ EntriesFor(FileEntries, LastStored.date) = compute_day(LastStored.date)

\* C5 as amended: an incremental run evicts the last stored snapshot; if its
\* date is not after today the run calls compute_day for it and the file holds
\* for that date exactly what compute_day yields (nothing if it yields
\* nothing); if its date is after today the snapshot is dropped and not
\* recomputed. A seed run evicts nothing: the last stored snapshot stays as
\* stored and is not recomputed.
C5_LastStoredRefreshedIncremental ==
  (pc = "done" /\ start_entries # << >>) =>
    /\ (mode = "incr" /\ LastStored.date <= today) =>
         /\ LastStored.date \in computed
         /\ EntriesFor(FileEntries, LastStored.date) = compute_day(LastStored.date)
    /\ (mode = "incr" /\ LastStored.date > today) =>
         /\ LastStored.date \notin computed
         /\ ~HasEntryFor(FileEntries, LastStored.date)
    /\ mode = "seed" =>
         /\ LastStored.date \notin computed
         /\ EntriesFor(FileEntries, LastStored.date) = << LastStored >>

\* An incremental run has replaced a stale last snapshot by a fresh one.
C5_Witness ==
  /\ pc = "done" /\ mode = "incr"
  /\ start_entries # << >>
  /\ ~Fresh(LastStored)
  /\ compute_day(LastStored.date) # << >>
  /\ LastStored.date \in computed
  /\ ~Holds(FileEntries, LastStored)

\* C6: a run never calls compute_day for a stored date other than the last
\* stored one, and the series it persists holds each such snapshot as stored.
C6_StoredSnapshotsKept ==
  \A k \in 1..(Len(start_entries) - 1) :
    /\ start_entries[k].date \notin computed
    /\ pc = "done" => EntriesFor(FileEntries, start_entries[k].date) = << start_entries[k] >>

\* A run has computed some days and kept a stored snapshot that the
\* repositories no longer yield.
C6_Witness ==
  /\ pc = "done"
  /\ Len(start_entries) >= 2
  /\ computed # {}
  /\ ~Fresh(start_entries[1])
  /\ Holds(FileEntries, start_entries[1])

\* C7: every date stored before an incremental run is stored after it.
C7_IncrementalAppendOnly ==
  (pc = "done" /\ mode = "incr") =>
    \A k \in 1..Len(start_entries) : HasEntryFor(FileEntries, start_entries[k].date)

\* The commits of repository n made at or before day d.
CommitsBy(n, d) ==
  IF repos[n].git THEN { k \in 1..Len(repos[n].commits) : repos[n].commits[k].cd <= d } ELSE {}

Latest(S) == CHOOSE k \in S : \A j \in S : j <= k

DefOf(n) == REPO_DEFS[CHOOSE k \in 1..Len(REPO_DEFS) : REPO_DEFS[k].name = n]

\* The lines of the files of a tree that a repository's scope and extensions
\* select, one file after the other.
RECURSIVE LinesIn(_, _)
LinesIn(tree, n) ==
  IF tree = {} THEN 0
  ELSE LET f == CHOOSE x \in tree : TRUE
           counts == /\ (DefOf(n).dirs = {} \/ f.dir \in DefOf(n).dirs)
                     /\ f.ext \in DefOf(n).exts
       IN (IF counts THEN f.lines ELSE 0) + LinesIn(tree \ {f}, n)

\* (The repositories change only while no run is in progress, so every state
\* of theirs is met there.)
\* C8: for every date, compute_day includes a repository exactly when it has a
\* commit at or before that date, with the commit count and the line count of
\* the latest such commit, and yields nothing when no repository has one; a
\* run appends only what compute_day yields.
C8_ComputeDayLatestCommit ==
  /\ \A d \in (IF pc = "idle" THEN 0..(MaxDay + 1) ELSE {}) :
       LET out == compute_day(d)
           with == { n \in RepoNames : CommitsBy(n, d) # {} }
       IN /\ Len(out) = (IF with = {} THEN 0 ELSE 1)
          /\ Len(out) = 1 =>
               /\ out[1].date = d
               /\ DOMAIN out[1].repos = with
               /\ \A n \in with :
                    LET k == Latest(CommitsBy(n, d))
                    IN /\ out[1].repos[n].commits = k
                       /\ out[1].repos[n].loc = LinesIn(tree_files(repos[n].commits[k].tree), n)
  /\ pc \in {"sort", "write", "write_entries", "done"} =>
       /\ \A d \in computed :
            EntriesFor(entries, d) = compute_day(d)
       /\ \A k \in 1..Len(entries) :
            entries[k].date \in computed \/ Holds(start_entries, entries[k])

\* A run has computed a day between two commits of one repository, before the
\* first commit of the other, and a day before any commit.
C8_Witness ==
  /\ pc = "done"
  /\ \E k \in 1..Len(FileEntries) :
       /\ FileEntries[k].date \in computed
       /\ \E n \in DOMAIN FileEntries[k].repos :
            FileEntries[k].repos[n].commits < Len(repos[n].commits)
       /\ DOMAIN FileEntries[k].repos # RepoNames
  /\ \E d \in computed : ~HasEntryFor(FileEntries, d)

NoHistory == \A n \in RepoNames : ~repos[n].git \/ repos[n].commits = << >>

\* C9: a seed run without any history ends with a non-zero exit code before
\* the write step, the file as it was; no other run ends there, and a run that
\* completes exits with 0.
C9_SeedWithoutHistoryFails ==
  /\ (mode = "seed" /\ NoHistory) =>
       /\ pc = "failed"
       /\ ~wrote
       /\ METRICS_FILE = start_file
  /\ pc = "failed" => (mode = "seed" /\ NoHistory /\ exit_code # 0)
  /\ pc = "done" => (exit_code = 0 /\ wrote)

\* A seed run over a stored series has failed for lack of history.
C9_Witness ==
  /\ pc = "failed"
  /\ Len(start_entries) > 0
  /\ METRICS_FILE = start_file

\* C10: the handler never ends in an exception and answers once; OPTIONS
\* gets 204; POST /api/visit sends at most one insert, answers 200 {ok:true}
\* only if the insert answered ok, and 500 with an error if the body does not
\* parse, the insert fails or the insert answers not ok; anything else gets
\* 404 and sends no insert.
C10_OneResponsePerRequest ==
  /\ wpc # "threw"
  /\ responses <= 1
  /\ upstream_calls <= 1
  /\ responses = 1 <=> wpc = "responded"
  /\ wpc = "responded" =>
       IF request.method = "OPTIONS"
       THEN response.status = 204 /\ upstream_calls = 0
       ELSE IF request.method = "POST" /\ request.path = "/api/visit"
       THEN /\ response.status \in {200, 500}
            /\ response.status = 200 <=> (upstream_calls = 1 /\ upstream = "ok")
            /\ response.status = 200 => response.body = "ok"
            /\ response.status = 500 => response.body = "error"
            /\ request.body \in {"garbage", "null"} => (response.status = 500 /\ upstream_calls = 0)
       ELSE response.status = 404 /\ upstream_calls = 0

\* A visit was answered 500 after its insert failed.
C10_Witness ==
  /\ wpc = "responded"
  /\ upstream = "throws"
  /\ upstream_calls = 1
  /\ response.status = 500

====
